---- MODULE Spec2Model ----
(***************************************************************************)
(* Model of the chunked, bounded-concurrency downloader of                 *)
(* src/huggingface.rs: download (validation, runtime, cleanup),            *)
(* download_async (probe, chunk loop, spawned chunk workers, join) and     *)
(* download_chunk (open/seek/request/write).                               *)
(*                                                                         *)
(* The origin is the environment.  Its object is Remote(0..length-1); a    *)
(* range request bytes=start-stop is answered with the bytes from start    *)
(* to min(stop, length-1).  For each chunk the origin fails the first      *)
(* `plan` requests and serves the following ones; `plan` is drawn when the *)
(* chunk is spawned.  Spec is the downloader whose tasks run to their      *)
(* return; SpecPanic adds a task that panics while a request is in flight; *)
(* FairSpec is Spec under weak fairness of its steps; SpecBackoff applies  *)
(* exponential_backoff to the attempt numbers and jitters of a usize of    *)
(* UsizeBits bits.                                                         *)
(* Local file errors other than remove_file are not modelled.              *)
(*                                                                         *)
(* The last part is the model manager of src/model_manager.rs with the     *)
(* downloader of src/downloader.rs: one registered model with its          *)
(* directory, the calls get_model_async and download_all made one after    *)
(* the other, and inside download_single_file and download_zip_file the    *)
(* work task task1 and the polling thread task2 with their channel.        *)
(* SpecManager is that part and FairManager lets the caller, task1 and     *)
(* every task2 run whenever they can.  Model directories are not shared    *)
(* between models and no file of a model is called "version".              *)
(***************************************************************************)
EXTENDS Integers, Sequences, FiniteSets

\* Bounds of the model.
MaxLen == 3
MaxChunkSize == 2
MaxFiles == 2
MaxParallelFailures == 2
MaxRetries == 1
\* Width in bits of usize in the model of exponential_backoff (64 on the
\* targets of the program; the arithmetic is the same modulo 2^width).
UsizeBits == 20
\* Files of the registered model, calls of the manager, and chunks of a
\* response stream.
MaxModelFiles == 2
MaxCalls == 2
MaxStream == 1

VARIABLES
    max_files,                   \* download argument
    chunk_size,                  \* download argument
    parallel_failures,           \* download argument
    max_retries,                 \* download argument
    pc,                          \* position of download / download_async
    probe,                       \* the bytes=0-0 response and what became of it
    length,                      \* total parsed from Content-Range
    start,                       \* next value of (0..length).step_by(chunk_size)
    handles,                     \* the spawned chunk tasks, in submission order
    semaphore,                   \* free permits of Semaphore::new(max_files)
    parallel_failures_semaphore, \* free permits of Semaphore::new(parallel_failures)
    file,                        \* the destination file
    file0,                       \* the destination file when download was called
    result,                      \* what download_async returned
    ret,                         \* what download returned
    backoff_pc,                  \* position of a call of exponential_backoff
    attempt_n,                   \* its argument n
    jitter_value,                \* what jitter() returned to it
    wait_time,                   \* what it returned
    source,                      \* Model::source of the registered model
    n_files,                     \* number of its files
    version,                     \* Model::version, the registered version
    marker,                      \* the file "version" of the model directory
    files,                       \* the model's files in the model directory
    archive,                     \* the file "archive" of the model directory
    calls,                       \* calls of the manager made so far
    api,                         \* the manager function being called
    mpc,                         \* position of the call
    stage,                       \* whose task1/task2 run: "single" or "unzip"
    file_i,                      \* links of download_huggingface downloaded
    total_size,                  \* download_single_file::total_size
    progress,                    \* download_single_file::progress
    task1,                       \* position or result of task1
    pollers,                     \* the task2 threads that have not been joined
    mret                         \* what the last call returned

config == <<max_files, chunk_size, parallel_failures, max_retries, file0>>
vars == <<max_files, chunk_size, parallel_failures, max_retries, pc, probe,
          length, start, handles, semaphore, parallel_failures_semaphore,
          file, file0, result, ret, backoff_pc, attempt_n, jitter_value,
          wait_time, source, n_files, version, marker, files, archive, calls,
          api, mpc, stage, file_i, total_size, progress, task1, pollers, mret>>

backoff == <<backoff_pc, attempt_n, jitter_value, wait_time>>

registry == <<source, n_files, version>>

manager == <<registry, marker, files, archive, calls, api, mpc, stage, file_i,
             total_size, progress, task1, pollers, mret>>

Min(a, b) == IF a < b THEN a ELSE b

Max(a, b) == IF a > b THEN a ELSE b

----------------------------------------------------------------------------
\* The origin and the destination file

\* Byte i of the remote object (distinct non-zero values).
Remote(i) == i + 1

\* The whole remote object of n bytes.
RemoteBytes(n) == [k \in 1..n |-> Remote(k - 1)]

\* No file at the destination path.
NoFile == [exists |-> FALSE, bytes |-> <<>>]

\* A file left by an earlier run, longer than any object of this model.
StaleFile == [exists |-> TRUE, bytes |-> [k \in 1..(MaxLen + 1) |-> 0 - 1]]

\* The body of the response to "Range: bytes=a-b" on an object of n bytes.
Body(a, b, n) == [k \in 1..(Min(b, n - 1) - a + 1) |-> Remote(a + k - 1)]

\* OpenOptions::new().write(true).create(true).open(filename): no truncation.
OpenCreate(f) == IF f.exists THEN f ELSE [exists |-> TRUE, bytes |-> <<>>]

\* file.seek(SeekFrom::Start(at)) then file.write_all(content); a hole reads 0.
WriteAtNoSeek(bytes, at, content) ==
    [k \in 1..Max(Len(bytes), Len(content)) |->
        IF k <= Len(content) THEN content[k] ELSE bytes[k]]

WriteAt(bytes, at, content) ==
    IF Len(content) = 0 THEN bytes
    ELSE [k \in 1..Max(Len(bytes), at + Len(content)) |->
            IF k > at /\ k <= at + Len(content) THEN content[k - at]
            ELSE IF k <= Len(bytes) THEN bytes[k]
            ELSE 0]

\* The file after download_chunk(start, stop) whose request succeeded (ok) or
\* failed.
DownloadChunkFile(f, a, b, n, ok) ==
    IF ok
    THEN [exists |-> TRUE, bytes |-> WriteAt(OpenCreate(f).bytes, a, Body(a, b, n))]
    ELSE OpenCreate(f)

----------------------------------------------------------------------------
\* download: validation

ValidationErrors == {"ErrParallelFailures", "ErrRetryConfig"}

ProbeErrors ==
    {"ErrSend", "ErrNoContentLength", "ErrNoContentRange", "ErrToStr", "ErrParse"}

ChunkErrors == {"ErrDownload", "ErrRetries", "ErrParallel"}

TooManyParallelLoose(pf, mf) == pf > mf + 1

TooManyParallel(pf, mf) == pf > mf

RetryMismatch(pf, mr) == (pf = 0) # (mr = 0)

\* No response: nothing was sent yet, or the send failed.
NoResponse ==
    [sent |-> FALSE, content_length |-> FALSE, has_cr |-> FALSE,
     ascii |-> FALSE, cr |-> <<>>]

\* No model is registered and no call of the manager is made.
NoManager ==
    /\ source = "Huggingface"
    /\ n_files = 0
    /\ version = <<>>
    /\ marker = NoFile
    /\ files = <<>>
    /\ archive = "absent"
    /\ calls = 0
    /\ api = "none"
    /\ mpc = "idle"
    /\ stage = "none"
    /\ file_i = 0
    /\ total_size = 0
    /\ progress = 0
    /\ task1 = "none"
    /\ pollers = <<>>
    /\ mret = "none"

Init ==
    /\ max_files \in 0..MaxFiles
    /\ chunk_size \in 1..MaxChunkSize
    /\ parallel_failures \in 0..MaxParallelFailures
    /\ max_retries \in 0..MaxRetries
    /\ file0 \in {NoFile, StaleFile}
    /\ file = file0
    /\ pc = "download"
    /\ probe = [outcome |-> "none", response |-> NoResponse]
    /\ length = 0
    /\ start = 0
    /\ handles = <<>>
    /\ semaphore = 0
    /\ parallel_failures_semaphore = 0
    /\ result = "none"
    /\ ret = "none"
    /\ backoff_pc = "none"
    /\ attempt_n = 0
    /\ jitter_value = 0
    /\ wait_time = 0
    /\ NoManager

Validate ==
    /\ pc = "download"
    /\ IF TooManyParallel(parallel_failures, max_files)
       THEN pc' = "returned" /\ ret' = "ErrParallelFailures"
       ELSE IF RetryMismatch(parallel_failures, max_retries)
       THEN pc' = "returned" /\ ret' = "ErrRetryConfig"
       ELSE pc' = "probe" /\ ret' = ret
    /\ UNCHANGED <<config, backoff, manager, probe, length, start, handles, semaphore,
                   parallel_failures_semaphore, file, result>>

----------------------------------------------------------------------------
\* download_async: probe

\* A header value, as the sequence of its characters.
DigitChars == <<"0", "1", "2", "3", "4", "5", "6", "7", "8", "9">>

RECURSIVE ToDigits(_)
ToDigits(n) ==
    IF n < 10 THEN <<DigitChars[n + 1]>>
    ELSE ToDigits(n \div 10) \o <<DigitChars[(n % 10) + 1]>>

\* "bytes 0-0/"
RangePrefix == <<"b", "y", "t", "e", "s", " ", "0", "-", "0", "/">>

\* "bytes */"
UnsatisfiedPrefix == <<"b", "y", "t", "e", "s", " ", "*", "/">>

\* The Content-Range an origin sends for an object of n bytes.
ContentRange(n) ==
    IF n = 0 THEN UnsatisfiedPrefix \o <<"0">> ELSE RangePrefix \o ToDigits(n)

\* Content-Range values whose total is no number: empty, without total, with
\* an unknown total, a negative one, one with a space, one with a suffix.
BadContentRanges ==
    { <<>>,
      <<"b", "y", "t", "e", "s">>,
      RangePrefix,
      RangePrefix \o <<"*">>,
      RangePrefix \o <<"-", "1">>,
      RangePrefix \o <<" ", "1">>,
      RangePrefix \o <<"1", "/">>,
      RangePrefix \o <<"1", "x">> }

\* The responses the origin may give to the probe: none (the send fails), one
\* without a body length, one without Content-Range, one whose Content-Range
\* is not visible ASCII, and the ones with a Content-Range.
ProbeResponses ==
    { NoResponse,
      [NoResponse EXCEPT !.sent = TRUE],
      [NoResponse EXCEPT !.sent = TRUE, !.content_length = TRUE],
      [NoResponse EXCEPT !.sent = TRUE, !.content_length = TRUE, !.has_cr = TRUE] }
    \cup { [sent |-> TRUE, content_length |-> TRUE, has_cr |-> TRUE,
            ascii |-> TRUE, cr |-> v] :
             v \in BadContentRanges \cup { ContentRange(n) : n \in 0..MaxLen } }

\* content_range.split('/').collect::<Vec<&str>>().last(): the part after the
\* last '/', the whole value when it has none.
RECURSIVE SplitLast(_)
SplitLast(v) ==
    IF v = <<>> THEN <<>>
    ELSE IF v[Len(v)] = "/" THEN <<>>
    ELSE SplitLast(SubSeq(v, 1, Len(v) - 1)) \o <<v[Len(v)]>>

DigitValue(ch) == CHOOSE d \in 0..9 : DigitChars[d + 1] = ch

IsDigit(ch) == \E d \in 0..9 : DigitChars[d + 1] = ch

RECURSIVE ParseDigits(_)
ParseDigits(t) ==
    IF t = <<>> THEN 0
    ELSE 10 * ParseDigits(SubSeq(t, 1, Len(t) - 1)) + DigitValue(t[Len(t)])

\* A parser that skips what is no digit and reads nothing as 0.
ParseUsizeLenient(t) == ParseDigits(SelectSeq(t, IsDigit))

\* str::parse::<usize>(): an optional '+' and then one or more digits; -1
\* stands for the Err.
ParseUsize(t) ==
    LET d == IF t # <<>> /\ t[1] = "+" THEN Tail(t) ELSE t
    IN IF d # <<>> /\ \A k \in 1..Len(d) : IsDigit(d[k])
       THEN ParseDigits(d)
       ELSE 0 - 1

\* Lines 90-114: what download_async makes of the response.
ProbeOutcome(r) ==
    IF ~r.sent THEN "ErrSend"
    ELSE IF ~r.content_length THEN "ErrNoContentLength"
    ELSE IF ~r.has_cr THEN "ErrNoContentRange"
    ELSE IF ~r.ascii THEN "ErrToStr"
    ELSE IF ParseUsize(SplitLast(r.cr)) < 0 THEN "ErrParse"
    ELSE "ok"

ProbeFail ==
    /\ pc = "probe"
    /\ \E r \in ProbeResponses :
        /\ ProbeOutcome(r) # "ok"
        /\ probe' = [outcome |-> ProbeOutcome(r), response |-> r]
        /\ result' = ProbeOutcome(r)
    /\ pc' = "async_done"
    /\ UNCHANGED <<config, backoff, manager, length, start, handles, semaphore,
                   parallel_failures_semaphore, file, ret>>

ProbeOk ==
    /\ pc = "probe"
    /\ \E r \in ProbeResponses :
        /\ ProbeOutcome(r) = "ok"
        /\ probe' = [outcome |-> "ok", response |-> r]
        /\ length' = ParseUsize(SplitLast(r.cr))
    /\ start' = 0
    /\ handles' = <<>>
    /\ semaphore' = max_files
    /\ parallel_failures_semaphore' = parallel_failures
    /\ pc' = "spawning"
    /\ UNCHANGED <<config, backoff, manager, file, result, ret>>

----------------------------------------------------------------------------
\* download_async: the chunk loop

Stop(s, cs, n) == Min(s + cs - 1, n)

StepByOver(s, cs) == s + cs + 1

\* (0..length).step_by(chunk_size): the value after s.
StepBy(s, cs) == s + cs

AcquireOwnedNoWait(s) == TRUE

AcquireOwned(s) == s > 0

Spawn ==
    /\ pc = "spawning"
    /\ start < length
    /\ AcquireOwned(semaphore)
    /\ semaphore' = semaphore - 1
    /\ \E p \in 0..(max_retries + 1) :
        handles' = Append(handles,
            [start |-> start, stop |-> Stop(start, chunk_size, length),
             st |-> "attempt", chunk |-> "none", i |-> 0, plan |-> p,
             permit |-> TRUE, fp |-> FALSE, out |-> "none"])
    /\ start' = StepBy(start, chunk_size)
    /\ UNCHANGED <<config, backoff, manager, pc, probe, length, parallel_failures_semaphore,
                   file, result, ret>>

LoopEnd ==
    /\ pc = "spawning"
    /\ start >= length
    /\ pc' = "joining"
    /\ UNCHANGED <<config, backoff, manager, probe, length, start, handles, semaphore,
                   parallel_failures_semaphore, file, result, ret>>

----------------------------------------------------------------------------
\* The spawned chunk worker

\* Calls of download_chunk started by the worker: the one of line 135 and one
\* per loop iteration that got past the sleep.
Attempts(h) == IF h.st = "retry" THEN h.i + 2 ELSE h.i + 1

\* The origin serves request number n of a chunk iff n > plan.
Served(h, n) == n > h.plan

ChunkResult(ok) == IF ok THEN "Ok" ELSE "ErrDownload"

RetryEnabledAlways(pf) == TRUE

RetryEnabled(pf) == pf > 0

RetriesExhaustedLate(i, mr) == i > mr

RetriesExhaustedEarly(i, mr) == i + 1 >= mr

RetriesExhausted(i, mr) == i >= mr

TryAcquireAlways(s) == TRUE

TryAcquire(s) == s > 0

\* A task that keeps its permit when it ends with the retries-exhausted error.
ReleasedLeak(out) == IF out = "ErrRetries" THEN 0 ELSE 1

\* ConcurrencyGate permits given back when the task ends with `out`: the
\* permit moved into the task is dropped by drop(permit) or, on an early
\* return or a panic, with the task's future.
Released(out) == 1

\* let mut chunk = download_chunk(...).await
AttemptDone(c) ==
    /\ c \in 1..Len(handles)
    /\ handles[c].st = "attempt"
    /\ LET h == handles[c]
           ok == Served(h, 1)
       IN /\ file' = DownloadChunkFile(file, h.start, h.stop, length, ok)
          /\ handles' = [handles EXCEPT ![c].chunk = ChunkResult(ok),
                                        ![c].st = "check"]
    /\ UNCHANGED <<config, backoff, manager, pc, probe, length, start, semaphore,
                   parallel_failures_semaphore, result, ret>>

\* if parallel_failures > 0 { while let Err(..) = chunk { ... } }; drop(permit); chunk
Check(c) ==
    /\ c \in 1..Len(handles)
    /\ handles[c].st = "check"
    /\ LET h == handles[c] IN
       IF RetryEnabled(parallel_failures) /\ h.chunk # "Ok"
       THEN IF RetriesExhausted(h.i, max_retries)
            THEN /\ handles' = [handles EXCEPT ![c].st = "done",
                                               ![c].permit = FALSE,
                                               ![c].out = "ErrRetries"]
                 /\ semaphore' = semaphore + Released("ErrRetries")
                 /\ UNCHANGED parallel_failures_semaphore
            ELSE IF TryAcquire(parallel_failures_semaphore)
            THEN /\ handles' = [handles EXCEPT ![c].st = "sleep",
                                               ![c].fp = TRUE]
                 /\ parallel_failures_semaphore' = parallel_failures_semaphore - 1
                 /\ UNCHANGED semaphore
            ELSE /\ handles' = [handles EXCEPT ![c].st = "done",
                                               ![c].permit = FALSE,
                                               ![c].out = "ErrParallel"]
                 /\ semaphore' = semaphore + Released("ErrParallel")
                 /\ UNCHANGED parallel_failures_semaphore
       ELSE /\ handles' = [handles EXCEPT ![c].st = "done",
                                          ![c].permit = FALSE,
                                          ![c].out = h.chunk]
            /\ semaphore' = semaphore + Released(h.chunk)
            /\ UNCHANGED parallel_failures_semaphore
    /\ UNCHANGED <<config, backoff, manager, pc, probe, length, start, file, result, ret>>

\* sleep(wait_time).await is over
Wake(c) ==
    /\ c \in 1..Len(handles)
    /\ handles[c].st = "sleep"
    /\ handles' = [handles EXCEPT ![c].st = "retry"]
    /\ UNCHANGED <<config, backoff, manager, pc, probe, length, start, semaphore,
                   parallel_failures_semaphore, file, result, ret>>

\* chunk = download_chunk(...).await; i += 1; drop(parallel_failure_permit)
RetryDone(c) ==
    /\ c \in 1..Len(handles)
    /\ handles[c].st = "retry"
    /\ LET h == handles[c]
           ok == Served(h, h.i + 2)
       IN /\ file' = DownloadChunkFile(file, h.start, h.stop, length, ok)
          /\ handles' = [handles EXCEPT ![c].chunk = ChunkResult(ok),
                                        ![c].i = h.i + 1,
                                        ![c].fp = FALSE,
                                        ![c].st = "check"]
    /\ parallel_failures_semaphore' = parallel_failures_semaphore + 1
    /\ UNCHANGED <<config, backoff, manager, pc, probe, length, start, semaphore, result, ret>>

\* The task panics while a download_chunk call is in flight: the unwinding
\* drops the permits it owns and its JoinHandle yields a JoinError.
Panic(c) ==
    /\ c \in 1..Len(handles)
    /\ handles[c].st \in {"attempt", "retry"}
    /\ handles' = [handles EXCEPT ![c].st = "done", ![c].out = "JoinError",
                                  ![c].permit = FALSE, ![c].fp = FALSE]
    /\ semaphore' = semaphore + Released("JoinError")
    /\ parallel_failures_semaphore' =
          parallel_failures_semaphore + (IF handles[c].fp THEN 1 ELSE 0)
    /\ UNCHANGED <<config, backoff, manager, pc, probe, length, start, file, result, ret>>

----------------------------------------------------------------------------
\* download_async: join_all and the reduction of the results

\* results.into_iter().flatten(): a Result iterates over its Ok value, so a
\* JoinError contributes nothing.
Flatten(hs) == SelectSeq(hs, LAMBDA h : h.out # "JoinError")

\* .collect::<Result<(), String>>(): the first Err in order, else Ok(()).
RECURSIVE Collect(_)
Collect(s) ==
    IF s = <<>> THEN "Ok"
    ELSE IF Head(s).out # "Ok" THEN Head(s).out
    ELSE Collect(Tail(s))

\* A join that gives up at the first task that ended with an error.
AllDoneOrFailed(hs) ==
    \/ \A c \in 1..Len(hs) : hs[c].st = "done"
    \/ \E c \in 1..Len(hs) : hs[c].st = "done" /\ hs[c].out # "Ok"

\* futures::future::join_all(handles).await is ready when every task has ended.
AllDone(hs) == \A c \in 1..Len(hs) : hs[c].st = "done"

Join ==
    /\ pc = "joining"
    /\ AllDone(handles)
    /\ result' = Collect(Flatten(handles))
    /\ pc' = "async_done"
    /\ UNCHANGED <<config, backoff, manager, probe, length, start, handles, semaphore,
                   parallel_failures_semaphore, file, ret>>

----------------------------------------------------------------------------
\* download: the map_err that removes the file after a failure

ReturnOk ==
    /\ pc = "async_done"
    /\ result = "Ok"
    /\ ret' = "Ok"
    /\ pc' = "returned"
    /\ UNCHANGED <<config, backoff, manager, probe, length, start, handles, semaphore,
                   parallel_failures_semaphore, file, result>>

ReturnErr ==
    /\ pc = "async_done"
    /\ result # "Ok"
    /\ IF file.exists
       THEN \/ file' = NoFile /\ ret' = result
            \/ file' = file /\ ret' = "ErrRemove"
       ELSE file' = file /\ ret' = result
    /\ pc' = "returned"
    /\ UNCHANGED <<config, backoff, manager, probe, length, start, handles, semaphore,
                   parallel_failures_semaphore, result>>

----------------------------------------------------------------------------
\* exponential_backoff and jitter, on a usize of UsizeBits bits

BASE_WAIT_TIME == 300

MAX_WAIT_TIME == 10000

\* jitter() draws from 0..=JITTER_MAX.
JITTER_MAX == 500

Usize == 2 ^ UsizeBits

\* Attempt numbers from 0 to just past the first n whose square overflows.
MaxAttempt == 2 ^ (UsizeBits \div 2) + 2

\* (base_wait_time + n.pow(2) + jitter()).min(max) where overflow wraps (a
\* build without overflow checks).
ExponentialBackoff(base_wait_time, n, max, j) ==
    Min((((base_wait_time + ((n * n) % Usize)) % Usize) + j) % Usize, max)

\* n.pow(2) or one of the two additions overflows (a build with overflow
\* checks panics there).
Overflows(base_wait_time, n, j) ==
    \/ n * n >= Usize
    \/ base_wait_time + n * n >= Usize
    \/ base_wait_time + n * n + j >= Usize

InitBackoff ==
    /\ max_files = 1
    /\ chunk_size = 1
    /\ parallel_failures = 1
    /\ max_retries = 1
    /\ file0 = NoFile
    /\ file = file0
    /\ pc = "download"
    /\ probe = [outcome |-> "none", response |-> NoResponse]
    /\ length = 0
    /\ start = 0
    /\ handles = <<>>
    /\ semaphore = 0
    /\ parallel_failures_semaphore = 0
    /\ result = "none"
    /\ ret = "none"
    /\ backoff_pc = "called"
    /\ attempt_n \in 0..MaxAttempt
    /\ jitter_value = 0
    /\ wait_time = 0
    /\ NoManager

main == <<config, pc, probe, length, start, handles, semaphore,
          parallel_failures_semaphore, file, result, ret>>

\* The call returns.
BackoffReturn ==
    /\ backoff_pc = "called"
    /\ \E j \in 0..JITTER_MAX :
        /\ jitter_value' = j
        /\ wait_time' = ExponentialBackoff(BASE_WAIT_TIME, attempt_n, MAX_WAIT_TIME, j)
    /\ backoff_pc' = "returned"
    /\ UNCHANGED <<main, manager, attempt_n>>

\* The call panics on an arithmetic overflow.
BackoffPanic ==
    /\ backoff_pc = "called"
    /\ \E j \in 0..JITTER_MAX :
        /\ Overflows(BASE_WAIT_TIME, attempt_n, j)
        /\ jitter_value' = j
    /\ backoff_pc' = "panicked"
    /\ UNCHANGED <<main, manager, attempt_n, wait_time>>

NextBackoff ==
    \/ BackoffReturn
    \/ BackoffPanic

SpecBackoff == InitBackoff /\ [][NextBackoff]_vars

----------------------------------------------------------------------------
Worker(c) == AttemptDone(c) \/ Check(c) \/ Wake(c) \/ RetryDone(c)

Next ==
    \/ Validate
    \/ ProbeFail
    \/ ProbeOk
    \/ Spawn
    \/ LoopEnd
    \/ \E c \in 1..MaxLen : Worker(c)
    \/ Join
    \/ ReturnOk
    \/ ReturnErr

Spec == Init /\ [][Next]_vars

\* The runtime keeps polling: while the chunk loop, a task whose request or
\* sleep is due to complete, the join or the return can take a step, one is
\* taken.
FairSpec == Spec /\ WF_vars(Next)

NextPanic ==
    \/ Next
    \/ \E c \in 1..MaxLen : Panic(c)

SpecPanic == Init /\ [][NextPanic]_vars

----------------------------------------------------------------------------
\* Vocabulary of the properties

\* download_async has returned after a successful probe.
AsyncReturned == pc \in {"async_done", "returned"} /\ probe.outcome = "ok"

Chunks == 1..Len(handles)

ActiveStates == {"attempt", "check", "sleep", "retry"}

Active == {c \in Chunks : handles[c].st \in ActiveStates}

RetryOn == parallel_failures >= 1 /\ max_retries >= 1

\* The origin fails every request of chunk c, which returns, and serves every
\* request of the other chunks, which succeed.
OnlyFailing(c) ==
    /\ handles[c].plan > max_retries
    /\ handles[c].out # "JoinError"
    /\ \A d \in Chunks \ {c} : handles[d].plan = 0 /\ handles[d].out = "Ok"

\* The bytes the origin holds for the range of chunk c are in the file at
\* their offsets.
Present(c) ==
    /\ file.exists
    /\ \A k \in handles[c].start..Min(handles[c].stop, length - 1) :
          k < Len(file.bytes) /\ file.bytes[k + 1] = Remote(k)

----------------------------------------------------------------------------
\* C1: the (start, stop) pairs of the chunk loop partition [0, length): starts
\* ascend from 0 in steps of chunk_size, each range begins right after the
\* previous one ends, and the inclusive stop of the final range is length - 1.
C1_RangesPartition ==
    \A c \in Chunks :
        /\ handles[c].start = (c - 1) * chunk_size
        /\ handles[c].start <= handles[c].stop
        /\ c > 1 => handles[c].start = handles[c - 1].stop + 1
        /\ (c = Len(handles) /\ start >= length) => handles[c].stop = length - 1

\* C2: the chunks between the start of their first attempt and their terminal
\* outcome never number more than max_files.
C2_ActiveAtMostMaxFiles ==
    /\ Cardinality(Active) <= max_files
    /\ semaphore >= 0

\* max_files >= 2 chunks are active, one of them backing off, and the chunk
\* loop waits for a permit to spawn the next one.
C2_Witness ==
    /\ pc = "spawning"
    /\ start < length
    /\ max_files >= 2
    /\ Cardinality(Active) = max_files
    /\ \E c \in Chunks : handles[c].st = "sleep"

\* C3: when download, called with max_files >= 1 on a path that held no file,
\* returns success, the file has exactly length bytes and byte i is byte i of
\* the remote object.
C3_RoundTrip ==
    (pc = "returned" /\ ret = "Ok" /\ ~file0.exists /\ max_files >= 1)
        => (file.exists /\ file.bytes = RemoteBytes(length))

\* C4: download returns a validation error exactly when parallel_failures >
\* max_files or exactly one of parallel_failures and max_retries is zero, and
\* then no request was sent, no worker started and the file is as it was; with
\* both zero it goes on to the probe and no worker ever backs off or retries.
C4_Validation ==
    /\ (pc # "download"
          /\ (parallel_failures > max_files
                \/ (parallel_failures = 0 /\ max_retries # 0)
                \/ (parallel_failures # 0 /\ max_retries = 0)))
        => /\ pc = "returned"
           /\ ret \in ValidationErrors
           /\ probe.outcome = "none"
           /\ handles = <<>>
           /\ result = "none"
           /\ file = file0
    /\ ret \in ValidationErrors
        => (parallel_failures > max_files
              \/ (parallel_failures = 0 /\ max_retries # 0)
              \/ (parallel_failures # 0 /\ max_retries = 0))
    /\ (pc # "download" /\ parallel_failures = 0 /\ max_retries = 0)
        => /\ ret \notin ValidationErrors
           /\ pc = "returned" => probe.outcome # "none"
           /\ \A c \in Chunks :
                 handles[c].i = 0 /\ handles[c].st \notin {"sleep", "retry"}

\* A configuration with parallel_failures <= max_files and exactly one of the
\* two retry settings zero was rejected, and the file that was there is intact.
C4_Witness ==
    /\ pc = "returned"
    /\ ret = "ErrRetryConfig"
    /\ parallel_failures <= max_files
    /\ file0.exists
    /\ file = file0

\* C5: with parallel_failures = 0 and max_retries = 0 no chunk is attempted
\* twice, none takes a FailureGate permit or sleeps, a chunk whose first
\* attempt failed ends with that attempt's error, and the download fails.
C5_NoRetryWhenDisabled ==
    (parallel_failures = 0 /\ max_retries = 0) =>
        /\ parallel_failures_semaphore = 0
        /\ \A c \in Chunks :
              /\ Attempts(handles[c]) = 1
              /\ handles[c].st \notin {"sleep", "retry"}
              /\ ~handles[c].fp
              /\ (handles[c].chunk = "ErrDownload" /\ handles[c].st = "done")
                    => handles[c].out = "ErrDownload"
        /\ (AsyncReturned /\ \E c \in Chunks : handles[c].chunk = "ErrDownload")
              => /\ result = "ErrDownload"
                 /\ pc = "returned" => ret \in {"ErrDownload", "ErrRemove"}

\* Retry is disabled, a chunk failed its only attempt next to a chunk that
\* succeeded, and download has returned.
C5_Witness ==
    /\ parallel_failures = 0
    /\ max_retries = 0
    /\ pc = "returned"
    /\ \E c, d \in Chunks :
          /\ handles[c].chunk = "ErrDownload"
          /\ handles[c].out = "ErrDownload"
          /\ handles[d].out = "Ok"

\* Every chunk fails its first k <= max_retries requests and is served on
\* request k+1, and no task panicked.
C6_Hypothesis ==
    /\ RetryOn
    /\ AsyncReturned
    /\ \A c \in Chunks :
          handles[c].plan <= max_retries /\ handles[c].out # "JoinError"

\* C6 as stated: under C6_Hypothesis the overall result is success and every
\* chunk made exactly k+1 attempts.
C6_AsStated ==
    C6_Hypothesis =>
        /\ result = "Ok"
        /\ \A c \in Chunks : Attempts(handles[c]) = handles[c].plan + 1

\* C6 amended: under C6_Hypothesis every chunk either succeeded after exactly
\* k+1 attempts or was refused a FailureGate permit after at most k attempts,
\* and the overall result is success iff no chunk was refused, else the
\* too-many-parallel-failures error.
C6_RetryThenSuccess ==
    C6_Hypothesis =>
        /\ \A c \in Chunks :
              \/ /\ handles[c].out = "Ok"
                 /\ Attempts(handles[c]) = handles[c].plan + 1
              \/ /\ handles[c].out = "ErrParallel"
                 /\ Attempts(handles[c]) <= handles[c].plan
        /\ result = "Ok" <=> (\A c \in Chunks : handles[c].out # "ErrParallel")
        /\ result \in {"Ok", "ErrParallel"}

\* Two chunks each failed at least once, one of them max_retries times, and the
\* download succeeded.
C6_Witness ==
    /\ C6_Hypothesis
    /\ result = "Ok"
    /\ \E c, d \in Chunks :
          /\ c # d
          /\ handles[c].plan = max_retries
          /\ handles[d].plan >= 1

\* C7: no chunk ever makes more than max_retries + 1 attempts; with retry
\* enabled, a chunk whose every request fails while the other chunks are served
\* makes exactly max_retries + 1 attempts and ends with the retries-exhausted
\* error, which is the result of the download.
C7_RetriesExhausted ==
    /\ \A c \in Chunks : Attempts(handles[c]) <= max_retries + 1
    /\ (RetryOn /\ AsyncReturned) =>
          \A c \in Chunks :
              OnlyFailing(c) =>
                  /\ Attempts(handles[c]) = max_retries + 1
                  /\ handles[c].out = "ErrRetries"
                  /\ result = "ErrRetries"

\* With retry enabled one chunk out of several exhausted its retries.
C7_Witness ==
    /\ RetryOn
    /\ AsyncReturned
    /\ Len(handles) >= 2
    /\ \E c \in Chunks : OnlyFailing(c) /\ handles[c].out = "ErrRetries"

\* C8 as stated: after download has returned the retries-exhausted error the
\* file exists and holds the bytes of every successful chunk at its offsets.
C8_AsStated ==
    (pc = "returned" /\ ret = "ErrRetries" /\ RetryOn
        /\ \E c \in Chunks : OnlyFailing(c))
        => /\ file.exists
           /\ \A d \in Chunks : handles[d].out = "Ok" => Present(d)

\* C8 amended: when download_async has produced the retries-exhausted error the
\* file exists and holds the bytes of every successful chunk at its offsets;
\* download then removes the file, so that after it has returned that error no
\* file is left.
C8_PartialFileRemoved ==
    /\ (pc = "async_done" /\ result = "ErrRetries" /\ RetryOn
          /\ \E c \in Chunks : OnlyFailing(c))
        => /\ file.exists
           /\ \A d \in Chunks : handles[d].out = "Ok" => Present(d)
    /\ (pc = "returned" /\ ret = "ErrRetries") => ~file.exists

\* download_async has produced the retries-exhausted error of the first chunk
\* and a later chunk was downloaded into a file that did not exist before.
C8_Witness ==
    /\ pc = "async_done"
    /\ result = "ErrRetries"
    /\ RetryOn
    /\ ~file0.exists
    /\ OnlyFailing(1)
    /\ \E d \in Chunks : d > 1 /\ handles[d].out = "Ok" /\ handles[d].start > 0

\* C9: if a chunk task panicked, the result of download_async is not success.
C9_JoinErrorFails ==
    (AsyncReturned /\ \E c \in Chunks : handles[c].out = "JoinError")
        => result # "Ok"

\* The step of worker c after a failed attempt with retries remaining.
C10_Step(c) ==
    (/\ c \in Chunks
     /\ handles[c].st = "check"
     /\ handles[c].chunk = "ErrDownload"
     /\ parallel_failures > 0
     /\ handles[c].i < max_retries
     /\ handles'[c] # handles[c])
        => IF parallel_failures_semaphore = 0
           THEN /\ handles'[c].st = "done"
                /\ handles'[c].out = "ErrParallel"
                /\ parallel_failures_semaphore' = 0
           ELSE /\ handles'[c].st = "sleep"
                /\ handles'[c].fp
                /\ parallel_failures_semaphore' = parallel_failures_semaphore - 1

----------------------------------------------------------------------------
\* C11: download_async has a result only when every spawned task is terminal;
\* the result is success iff every chunk succeeded, and otherwise it is the
\* error of the first chunk in submission order that did not succeed.
C11_Aggregate ==
    AsyncReturned =>
        /\ \A c \in Chunks : handles[c].st = "done"
        /\ result = "Ok" <=> (\A c \in Chunks : handles[c].out = "Ok")
        /\ result # "Ok" =>
              \E c \in Chunks :
                  /\ handles[c].out # "Ok"
                  /\ result = handles[c].out
                  /\ \A d \in 1..(c - 1) : handles[d].out = "Ok"

----------------------------------------------------------------------------
\* The Content-Range value v ends in '/' and one or more digits.
HasNumericTotal(v) ==
    \E k \in 1..(Len(v) - 1) :
        /\ v[k] = "/"
        /\ \A j \in (k + 1)..Len(v) : \E d \in 0..9 : v[j] = DigitChars[d + 1]

\* The probe response had no Content-Range or one whose total is no number.
BadProbe ==
    /\ probe.outcome # "none"
    /\ probe.response.sent
    /\ probe.response.content_length
    /\ ~probe.response.has_cr
          \/ (probe.response.ascii /\ ~HasNumericTotal(probe.response.cr))

\* C12 as stated: after such a probe response download returns a probe error,
\* no chunk task exists, no chunk request wrote to the file and no file is at
\* the destination that was not there before.
C12_AsStated ==
    BadProbe =>
        /\ probe.outcome \in ProbeErrors
        /\ pc \in {"async_done", "returned"}
        /\ handles = <<>>
        /\ file.exists => file = file0
        /\ pc = "returned" => ret \in ProbeErrors

\* C12 amended: after such a probe response download_async returns a probe
\* error, no chunk task exists and no file is at the destination that was not
\* there before; download returns that probe error after removing a file that
\* was already there, or the removal error when that file cannot be removed.
C12_ProbeError ==
    BadProbe =>
        /\ probe.outcome \in {"ErrNoContentRange", "ErrParse"}
        /\ pc \in {"async_done", "returned"}
        /\ result = probe.outcome
        /\ handles = <<>>
        /\ file.exists => file = file0
        /\ pc = "returned" =>
              \/ ret = probe.outcome /\ ~file.exists
              \/ ret = "ErrRemove" /\ file0.exists /\ file = file0

\* download has returned the parse error of a Content-Range with an unknown
\* total, and there was and is no file.
C12_Witness ==
    /\ pc = "returned"
    /\ ret = "ErrParse"
    /\ probe.response.cr = RangePrefix \o <<"*">>
    /\ ~file0.exists
    /\ ~file.exists

----------------------------------------------------------------------------
\* C13: when download_async produces a failed result every chunk task that
\* was started has run to its own end, success or error, and the bytes of
\* every chunk that succeeded are in the file at its offsets.
C13_NoCancellation ==
    (AsyncReturned /\ result # "Ok") =>
        \A c \in Chunks :
            /\ handles[c].st = "done"
            /\ handles[c].out \in {"Ok", "JoinError"} \cup ChunkErrors
            /\ handles[c].out = "Ok" =>
                  /\ Attempts(handles[c]) = handles[c].plan + 1
                  /\ pc = "async_done" => Present(c)

\* download_async has failed with the error of the first chunk; a chunk after
\* it was retried, succeeded and is in the file.
C13_Witness ==
    /\ pc = "async_done"
    /\ probe.outcome = "ok"
    /\ ~file0.exists
    /\ result \in ChunkErrors
    /\ handles[1].out = result
    /\ \E d \in Chunks :
          /\ d > 1
          /\ handles[d].out = "Ok"
          /\ handles[d].i >= 1
          /\ Present(d)

----------------------------------------------------------------------------
\* ceil(n / cs)
CeilDiv(n, cs) == (n + cs - 1) \div cs

\* C14: once the chunk loop has ended, the number of chunk tasks spawned is
\* ceil(length / chunk_size), never more before; for length = 0 no task is
\* spawned and download_async and download return success.
C14_ChunkCount ==
    probe.outcome = "ok" =>
        /\ Len(handles) <= CeilDiv(length, chunk_size)
        /\ pc # "spawning" => Len(handles) = CeilDiv(length, chunk_size)
        /\ length = 0 =>
              /\ handles = <<>>
              /\ pc \in {"async_done", "returned"} => result = "Ok"
              /\ pc = "returned" => ret = "Ok"

\* The loop has ended with two tasks for 3 bytes in chunks of 2.
C14_Witness ==
    /\ pc = "joining"
    /\ length = 3
    /\ chunk_size = 2
    /\ Len(handles) = 2

----------------------------------------------------------------------------
\* C15: a call of exponential_backoff(300, n, 10000) returns, its wait is
\* between base and max, and with jitter 0 it is not below the wait of the
\* attempt before with jitter 0.
C15_BackoffBounds ==
    /\ backoff_pc # "panicked"
    /\ backoff_pc = "returned" =>
          /\ BASE_WAIT_TIME <= wait_time
          /\ wait_time <= MAX_WAIT_TIME
          /\ (jitter_value = 0 /\ attempt_n >= 1) =>
                wait_time >= ExponentialBackoff(BASE_WAIT_TIME, attempt_n - 1,
                                                MAX_WAIT_TIME, 0)

----------------------------------------------------------------------------
\* C16: a chunk task is spawned, ready for its first attempt, only in a step
\* that takes a free ConcurrencyGate permit for it; it holds the permit in
\* every state before its end (attempting, deciding, backing off, retrying)
\* and gives it back in the step that ends it, not before.
C16_PermitHeld ==
    /\ [](\A c \in Chunks :
            /\ handles[c].st \in ActiveStates => handles[c].permit
            /\ handles[c].st = "done" => ~handles[c].permit)
    /\ [][Len(handles') > Len(handles) =>
            /\ semaphore > 0
            /\ semaphore' = semaphore - 1
            /\ handles'[Len(handles')].permit
            /\ handles'[Len(handles')].st = "attempt"]_vars
    /\ [][\A c \in Chunks :
            (handles[c].permit /\ ~handles'[c].permit) =>
                /\ handles[c].st \in {"attempt", "check", "retry"}
                /\ handles'[c].st = "done"
                /\ semaphore' = semaphore + 1]_vars

\* The last permit is held by a chunk in its backoff between two attempts
\* while the chunk loop waits to spawn the next chunk.
C16_Witness ==
    /\ pc = "spawning"
    /\ start < length
    /\ semaphore = 0
    /\ \E c \in Chunks :
          /\ handles[c].st = "sleep"
          /\ handles[c].permit
          /\ \A d \in Chunks \ {c} : handles[d].st = "done"

----------------------------------------------------------------------------
\* The chunks in their backoff sleep or in the retry attempt that follows it.
Retrying == {c \in Chunks : handles[c].st \in {"sleep", "retry"}}

\* C17: the chunks backing off or retrying never number more than
\* parallel_failures; a task holds a FailureGate permit exactly while it is in
\* its backoff sleep or in the retry attempt after it, so that it holds none
\* once that attempt has completed.
C17_FailureGate ==
    /\ Cardinality(Retrying) <= parallel_failures
    /\ parallel_failures_semaphore >= 0
    /\ \A c \in Chunks : handles[c].fp <=> c \in Retrying

\* A chunk whose retry has failed holds no FailureGate permit any more, and
\* the only permit is with another chunk that failed and is backing off.
C17_Witness ==
    /\ parallel_failures = 1
    /\ \E c, d \in Chunks :
          /\ handles[c].st = "check"
          /\ handles[c].i >= 1
          /\ handles[c].chunk = "ErrDownload"
          /\ ~handles[c].fp
          /\ handles[d].st = "sleep"
          /\ handles[d].fp

----------------------------------------------------------------------------
\* The offsets chunk c asks for with "Range: bytes=start-stop".
Requested(c) == handles[c].start..handles[c].stop

\* The offsets a successful attempt of chunk c writes: the body, from start.
Written(c) ==
    LET h == handles[c]
    IN h.start..(h.start + Len(Body(h.start, h.stop, length)) - 1)

\* C18: the offsets a chunk writes and the offsets it requests are inside its
\* assigned range and inside [0, length), and no offset belongs to two chunks.
C18_OwnRangeOnly ==
    \A c \in Chunks :
        /\ Written(c) \subseteq Requested(c)
        /\ Written(c) \subseteq 0..(length - 1)
        /\ Requested(c) \subseteq 0..(length - 1)
        /\ \A d \in Chunks \ {c} :
              /\ Requested(c) \cap Requested(d) = {}
              /\ Written(c) \cap Written(d) = {}

----------------------------------------------------------------------------
\* C19: with max_files >= 1, once the probe has succeeded download_async
\* eventually returns, with every planned chunk spawned and ended.
C19_Terminates ==
    (pc = "spawning" /\ max_files >= 1)
        ~> /\ AsyncReturned
           /\ Len(handles) = CeilDiv(length, chunk_size)
           /\ \A c \in Chunks : handles[c].st = "done"

\* With a single permit the first chunk aborted, the chunks after it were
\* still spawned, and download_async has returned.
C19_Witness ==
    /\ AsyncReturned
    /\ max_files = 1
    /\ Len(handles) >= 2
    /\ handles[1].out \in {"ErrRetries", "ErrDownload"}
    /\ \A c \in Chunks : handles[c].st = "done"

----------------------------------------------------------------------------
\* C20: from the creation of the two semaphores on, the free ConcurrencyGate
\* permits plus those held by tasks are max_files and the free FailureGate
\* permits plus those held are parallel_failures; when download_async has its
\* result all permits of both are free.
C20_PermitsConserved ==
    probe.outcome = "ok" =>
        /\ semaphore + Cardinality({c \in Chunks : handles[c].permit}) = max_files
        /\ parallel_failures_semaphore
              + Cardinality({c \in Chunks : handles[c].fp}) = parallel_failures
        /\ AsyncReturned =>
              /\ semaphore = max_files
              /\ parallel_failures_semaphore = parallel_failures

\* download_async has returned after one chunk succeeded, one exhausted its
\* retries and one was refused by the FailureGate.
C20_Witness ==
    /\ AsyncReturned
    /\ \E a, b, c \in Chunks :
          /\ handles[a].out = "Ok"
          /\ handles[b].out = "ErrRetries"
          /\ handles[c].out = "ErrParallel"

----------------------------------------------------------------------------
\* model_manager.rs and downloader.rs: one registered model, its directory,
\* and the calls get_model_async and download_all

\* The version of an earlier registration and the one of a later one.
OldVersion == <<1>>

NewVersion == <<1, 2>>

Versions == {OldVersion, NewVersion}

Sources == {"Huggingface", "Zip"}

Apis == {"get_model_async", "download_all"}

\* States of a file on disk: not there, created but not written to its end,
\* written to its end.
FileStates == {"absent", "partial", "full"}

\* What a call can return besides Ok.
DownloadErrors == {"ErrFetch", "ErrWriteFile", "ErrOpenFile", "ErrZipExtract"}

ManagerErrors == DownloadErrors \cup {"ErrModelNotFound", "ErrConsoleClear"}

\* A task2 thread as spawned: about to call try_recv on an empty channel.
NewPoller == [pc |-> "try_recv", receiver |-> "empty"]

\* check_download_needed: the marker cannot be read or differs from version.
CheckDownloadNeeded(m, v) == IF m.exists THEN m.bytes # v ELSE TRUE

\* receiver.try_recv().is_err(): Err(Empty) and Err(Disconnected) alike.
TryRecvIsErr(receiver) == receiver # "message"

\* Every link of the model has been downloaded / every entry extracted.
AllFull(fs, n) == \A f \in 1..n : fs[f] = "full"

\* for v in links.url(): the loop that stops after the first link.
LinksLeftFirst(i, n) == i < Min(n, 1)

\* for v in links.url(): links are left after i of n.
LinksLeft(i, n) == i < n

\* create_version: File::create fails (the marker stays), or write_all fails
\* after a proper prefix, or both succeed.
CreateVersion(m, v) ==
    { [result |-> "ErrWriteFile", marker |-> m] }
    \cup { [result |-> "ErrWriteFile",
            marker |-> [exists |-> TRUE, bytes |-> SubSeq(v, 1, k)]] :
              k \in 0..(Len(v) - 1) }
    \cup { [result |-> "Ok", marker |-> [exists |-> TRUE, bytes |-> v]] }

\* The disk holds nothing of the model, or what a download of OldVersion left.
InitManager ==
    /\ max_files = 1
    /\ chunk_size = 1
    /\ parallel_failures = 1
    /\ max_retries = 1
    /\ file0 = NoFile
    /\ file = file0
    /\ pc = "download"
    /\ probe = [outcome |-> "none", response |-> NoResponse]
    /\ length = 0
    /\ start = 0
    /\ handles = <<>>
    /\ semaphore = 0
    /\ parallel_failures_semaphore = 0
    /\ result = "none"
    /\ ret = "none"
    /\ backoff_pc = "none"
    /\ attempt_n = 0
    /\ jitter_value = 0
    /\ wait_time = 0
    /\ source \in Sources
    /\ n_files \in 0..MaxModelFiles
    /\ version \in Versions
    /\ \/ marker = NoFile /\ files = [f \in 1..n_files |-> "absent"]
       \/ /\ marker = [exists |-> TRUE, bytes |-> OldVersion]
          /\ files = [f \in 1..n_files |-> "full"]
    /\ archive = "absent"
    /\ calls = 0
    /\ api = "none"
    /\ mpc = "idle"
    /\ stage = "none"
    /\ file_i = 0
    /\ total_size = 0
    /\ progress = 0
    /\ task1 = "none"
    /\ pollers = <<>>
    /\ mret = "none"

\* The call returns r; download_all goes on to m.clear() after its downloads.
Return(r) ==
    IF r = "Ok" /\ api = "download_all"
    THEN mpc' = "clear" /\ mret' = mret
    ELSE mpc' = "idle" /\ mret' = r

\* get_model_async lines 50-55 / download_all lines 131-140.
Call ==
    /\ mpc = "idle"
    /\ calls < MaxCalls
    /\ calls' = calls + 1
    /\ \E a \in Apis, found \in BOOLEAN :
        /\ a = "download_all" => found
        /\ api' = a
        /\ IF ~found
           THEN mpc' = "idle" /\ mret' = "ErrModelNotFound"
           ELSE IF CheckDownloadNeeded(marker, version)
                THEN mpc' = "create_paths" /\ mret' = mret
                ELSE IF a = "download_all"
                     THEN mpc' = "clear" /\ mret' = mret
                     ELSE mpc' = "idle" /\ mret' = "Ok"
    /\ UNCHANGED <<main, backoff, registry, marker, files, archive, stage,
                   file_i, total_size, progress, task1, pollers>>

\* create_paths: remove_dir_all, whose error is dropped and which may have
\* removed any part of the directory, then create_dir_all; then download_file
\* enters download_huggingface or download_zip_file.
CreatePaths ==
    /\ mpc = "create_paths"
    /\ \E keep_marker \in BOOLEAN, keep_archive \in BOOLEAN,
          kept \in SUBSET (1..n_files), created \in BOOLEAN :
        /\ marker' = IF keep_marker THEN marker ELSE NoFile
        /\ archive' = IF keep_archive THEN archive ELSE "absent"
        /\ files' = [f \in 1..n_files |-> IF f \in kept THEN files[f] ELSE "absent"]
        /\ IF ~created
           THEN mpc' = "idle" /\ mret' = "ErrWriteFile"
           ELSE /\ mret' = mret
                /\ mpc' = IF source = "Huggingface" /\ ~LinksLeft(0, n_files)
                          THEN "version" ELSE "send"
    /\ file_i' = 0
    /\ stage' = "single"
    /\ UNCHANGED <<main, backoff, registry, calls, api, total_size, progress,
                   task1, pollers>>

\* download_single_file lines 65-114: the request, then the channel, the
\* counter and the two tasks.
SingleSend ==
    /\ mpc = "send"
    /\ \/ /\ Return("ErrFetch")
          /\ UNCHANGED <<total_size, progress, task1, pollers>>
       \/ /\ total_size' \in 0..MaxStream
          /\ progress' = 0
          /\ task1' = "create"
          /\ pollers' = Append(pollers, NewPoller)
          /\ mpc' = "tasks"
          /\ mret' = mret
    /\ UNCHANGED <<main, backoff, registry, marker, files, archive, calls, api,
                   stage, file_i>>

\* The file task1 of download_single_file writes becomes st.
SetTarget(st) ==
    IF source = "Zip"
    THEN archive' = st /\ files' = files
    ELSE archive' = archive /\ files' = [files EXCEPT ![file_i + 1] = st]

\* task1 ends with error e: its future or closure is dropped, the sender
\* with it.
Task1Err(e) ==
    /\ task1' = e
    /\ pollers' = [pollers EXCEPT ![Len(pollers)].receiver = "disconnected"]

\* task1 of download_single_file, lines 86-88.
Task1Create ==
    /\ mpc = "tasks"
    /\ task1 = "create"
    /\ \/ /\ Task1Err("ErrWriteFile")
          /\ UNCHANGED <<files, archive>>
       \/ /\ SetTarget("partial")
          /\ task1' = "stream"
          /\ pollers' = pollers
    /\ UNCHANGED <<main, backoff, registry, marker, calls, api, mpc, stage,
                   file_i, total_size, progress, mret>>

\* task1 of download_single_file, lines 91-101: one turn of the loop; the
\* counter is updated under its lock.
Task1Stream ==
    /\ mpc = "tasks"
    /\ task1 = "stream"
    /\ IF progress < total_size
       THEN \/ /\ progress' = Min(progress + 1, total_size)
               /\ UNCHANGED <<task1, pollers, files, archive>>
            \/ /\ \E e \in {"ErrFetch", "ErrWriteFile"} : Task1Err(e)
               /\ UNCHANGED <<progress, files, archive>>
       ELSE /\ SetTarget("full")
            /\ task1' = "send"
            /\ UNCHANGED <<progress, pollers>>
    /\ UNCHANGED <<main, backoff, registry, marker, calls, api, mpc, stage,
                   file_i, total_size, mret>>

\* sender.send(()), lines 102 and 167: the receiver is alive, so it succeeds.
Task1Send ==
    /\ mpc = "tasks"
    /\ task1 = "send"
    /\ task1' = "Ok"
    /\ pollers' = [pollers EXCEPT ![Len(pollers)].receiver = "message"]
    /\ UNCHANGED <<main, backoff, registry, marker, files, archive, calls, api,
                   mpc, stage, file_i, total_size, progress, mret>>

\* task2, lines 108 and 172: the loop test.
PollTryRecv(k) ==
    /\ k \in 1..Len(pollers)
    /\ pollers[k].pc = "try_recv"
    /\ pollers' = [pollers EXCEPT ![k].pc =
                      IF TryRecvIsErr(pollers[k].receiver) THEN "update"
                      ELSE "done"]
    /\ UNCHANGED <<main, backoff, registry, marker, files, archive, calls, api,
                   mpc, stage, file_i, total_size, progress, task1, mret>>

\* task2, lines 109-111 and 173: the progress bar is set from the counter or
\* advanced (the bar is not part of the model).
PollUpdate(k) ==
    /\ k \in 1..Len(pollers)
    /\ pollers[k].pc = "update"
    /\ pollers' = [pollers EXCEPT ![k].pc = "sleep"]
    /\ UNCHANGED <<main, backoff, registry, marker, files, archive, calls, api,
                   mpc, stage, file_i, total_size, progress, task1, mret>>

\* task2, lines 112 and 174: the sleep ends.
PollSleep(k) ==
    /\ k \in 1..Len(pollers)
    /\ pollers[k].pc = "sleep"
    /\ pollers' = [pollers EXCEPT ![k].pc = "try_recv"]
    /\ UNCHANGED <<main, backoff, registry, marker, files, archive, calls, api,
                   mpc, stage, file_i, total_size, progress, task1, mret>>

\* task1.await...?? (line 116) and task1.join()...?? (line 177).
AwaitTask1 ==
    /\ mpc = "tasks"
    /\ task1 \in DownloadErrors \cup {"Ok"}
    /\ IF task1 = "Ok"
       THEN mpc' = "join" /\ mret' = mret
       ELSE Return(task1)
    /\ UNCHANGED <<main, backoff, registry, marker, files, archive, calls, api,
                   stage, file_i, total_size, progress, task1, pollers>>

\* task2.join() (lines 117 and 178) and what follows it: the next link or
\* create_version in download_huggingface, the unpacking in
\* download_zip_file, or its end.
JoinTask2 ==
    /\ mpc = "join"
    /\ pollers[Len(pollers)].pc = "done"
    /\ pollers' = SubSeq(pollers, 1, Len(pollers) - 1)
    /\ IF stage = "unzip"
       THEN Return("Ok") /\ file_i' = file_i
       ELSE IF source = "Zip"
            THEN mpc' = "unzip" /\ mret' = mret /\ file_i' = file_i
            ELSE /\ file_i' = file_i + 1
                 /\ mret' = mret
                 /\ mpc' = IF LinksLeft(file_i + 1, n_files)
                           THEN "send" ELSE "version"
    /\ UNCHANGED <<main, backoff, registry, marker, files, archive, calls, api,
                   stage, total_size, progress, task1>>

\* download_huggingface line 42.
HuggingfaceVersion ==
    /\ mpc = "version"
    /\ \E o \in CreateVersion(marker, version) :
        /\ marker' = o.marker
        /\ Return(o.result)
    /\ UNCHANGED <<main, backoff, registry, files, archive, calls, api, stage,
                   file_i, total_size, progress, task1, pollers>>

\* download_zip_file lines 149-176: the second channel and its two threads.
UnzipStart ==
    /\ mpc = "unzip"
    /\ stage' = "unzip"
    /\ task1' = "open"
    /\ pollers' = Append(pollers, NewPoller)
    /\ mpc' = "tasks"
    /\ UNCHANGED <<main, backoff, registry, marker, files, archive, calls, api,
                   file_i, total_size, progress, mret>>

\* task1 of download_zip_file, line 160.
ZipOpen ==
    /\ mpc = "tasks"
    /\ task1 = "open"
    /\ \/ Task1Err("ErrOpenFile")
       \/ task1' = "extract" /\ pollers' = pollers
    /\ UNCHANGED <<main, backoff, registry, marker, files, archive, calls, api,
                   mpc, stage, file_i, total_size, progress, mret>>

\* task1 of download_zip_file, lines 159-164: all entries are extracted, or
\* the first k of them and perhaps a part of the next.
ZipExtract ==
    /\ mpc = "tasks"
    /\ task1 = "extract"
    /\ \/ /\ files' = [f \in 1..n_files |-> "full"]
          /\ task1' = "remove"
          /\ pollers' = pollers
       \/ /\ \E k \in 0..n_files, part \in BOOLEAN :
              files' = [f \in 1..n_files |->
                           IF f <= k THEN "full"
                           ELSE IF f = k + 1 /\ part THEN "partial"
                           ELSE files[f]]
          /\ Task1Err("ErrZipExtract")
    /\ UNCHANGED <<main, backoff, registry, marker, archive, calls, api, mpc,
                   stage, file_i, total_size, progress, mret>>

\* task1 of download_zip_file, line 165.
ZipRemove ==
    /\ mpc = "tasks"
    /\ task1 = "remove"
    /\ \/ Task1Err("ErrWriteFile") /\ archive' = archive
       \/ archive' = "absent" /\ task1' = "version" /\ pollers' = pollers
    /\ UNCHANGED <<main, backoff, registry, marker, files, calls, api, mpc,
                   stage, file_i, total_size, progress, mret>>

\* task1 of download_zip_file, line 166.
ZipVersion ==
    /\ mpc = "tasks"
    /\ task1 = "version"
    /\ \E o \in CreateVersion(marker, version) :
        /\ marker' = o.marker
        /\ IF o.result = "Ok"
           THEN task1' = "send" /\ pollers' = pollers
           ELSE Task1Err(o.result)
    /\ UNCHANGED <<main, backoff, registry, files, archive, calls, api, mpc,
                   stage, file_i, total_size, progress, mret>>

\* download_all lines 170-174.
Clear ==
    /\ mpc = "clear"
    /\ mpc' = "idle"
    /\ mret' \in {"Ok", "ErrConsoleClear"}
    /\ UNCHANGED <<main, backoff, registry, marker, files, archive, calls, api,
                   stage, file_i, total_size, progress, task1, pollers>>

\* The caller and the functions it is in.
Caller ==
    \/ Call
    \/ CreatePaths
    \/ SingleSend
    \/ AwaitTask1
    \/ JoinTask2
    \/ HuggingfaceVersion
    \/ UnzipStart
    \/ Clear

Task1 ==
    \/ Task1Create
    \/ Task1Stream
    \/ Task1Send
    \/ ZipOpen
    \/ ZipExtract
    \/ ZipRemove
    \/ ZipVersion

Task2(k) == PollTryRecv(k) \/ PollUpdate(k) \/ PollSleep(k)

\* At most one task2 is left behind by a call.
MaxPollers == MaxCalls + 1

NextManager ==
    \/ Caller
    \/ Task1
    \/ \E k \in 1..MaxPollers : Task2(k)

SpecManager == InitManager /\ [][NextManager]_vars

\* The caller, task1 and every task2 thread keep running while they can.
FairManager ==
    /\ SpecManager
    /\ WF_vars(Caller)
    /\ WF_vars(Task1)
    /\ \A k \in 1..MaxPollers : WF_vars(Task2(k))

----------------------------------------------------------------------------
\* C21: in download_single_file and download_zip_file task2 ends whenever
\* task1 has finished, with the completion message or with an error and the
\* sender dropped, and no task2 runs once the function has returned.
C21_PollerTerminates ==
    /\ [](mpc \in {"idle", "clear"} => pollers = <<>>)
    /\ (task1 \in DownloadErrors \cup {"Ok"}) ~> (pollers = <<>>)

----------------------------------------------------------------------------
\* C22: the marker is written only when every file of the model is there; so
\* a marker equal to the registered version means that all files of the model
\* are present, and after a call that failed in create_paths or in the
\* download check_download_needed still returns true.
C22_MarkerLast ==
    /\ []((marker.exists /\ marker.bytes = version) => AllFull(files, n_files))
    /\ []((mpc = "idle" /\ mret \in DownloadErrors)
              => CheckDownloadNeeded(marker, version))
    /\ [][(marker' # marker /\ marker'.exists) => AllFull(files, n_files)]_vars

\* A second call has downloaded both files and written the marker after a
\* first call failed part-way.
C22_Witness ==
    /\ mpc = "idle"
    /\ mret = "Ok"
    /\ calls >= 2
    /\ n_files >= 2
    /\ pollers # <<>>
    /\ marker = [exists |-> TRUE, bytes |-> version]
    /\ AllFull(files, n_files)

====
